---------------------------- MODULE Spec2Model ----------------------------
(***************************************************************************)
(* Model of pkg/package.go of go-rpmdb: the primitive decoders             *)
(* (parseString, parseStringArray, parseInt32, parseInt32Array,            *)
(* parseUInt16Array), newPackage (the scalar pass over the index entries)  *)
(* and getFileInfo (the collection pass and the zipping pass).             *)
(*                                                                         *)
(* Byte slices and strings are sequences of bytes (0..255).  A Go slice    *)
(* is a record [nil, v]: nil tells the nil slice from an empty one.  An    *)
(* error value is its chain of messages (outermost first, each %w adds     *)
(* one); the nil error is the empty chain.  A Go runtime panic (index out  *)
(* of range) is the outcome kind "panic": nothing is returned.             *)
(***************************************************************************)
EXTENDS Integers, Sequences, FiniteSets, TLC

VARIABLES
    entries,         \* newPackage's argument indexEntries
    pc,              \* position in newPackage / getFileInfo
    idx,             \* 1-based position of the range loop over entries
    pkgInfo,         \* newPackage's pkgInfo (being populated)
    allBasenames, allDirs, allDirIndexes,
    allFileDigests, allFileModes, allFileSizes,   \* getFileInfo's locals
    i,               \* 0-based index of the zipping loop
    files,           \* getFileInfo's files
    gfi,             \* what getFileInfo returned to newPackage
    ret,             \* what newPackage returned to its caller
    call,            \* arguments of a direct decoder call
    result           \* what the direct decoder call returned

vars == <<entries, pc, idx, pkgInfo, allBasenames, allDirs, allDirIndexes,
          allFileDigests, allFileModes, allFileSizes, i, files, gfi, ret,
          call, result>>

---------------------------------------------------------------------------
(* Tags and types.                                                         *)

RPMTAG_NAME == 1000
RPMTAG_VERSION == 1001
RPMTAG_RELEASE == 1002
RPMTAG_EPOCH == 1003
RPMTAG_ARCH == 1022
RPMTAG_SOURCERPM == 1044
RPMTAG_SIZE == 1009
RPMTAG_LICENSE == 1014
RPMTAG_VENDOR == 1011
RPMTAG_DIRINDEXES == 1116
RPMTAG_BASENAMES == 1117
RPMTAG_DIRNAMES == 1118
RPMTAG_FILESIZES == 1028
RPMTAG_FILEMODES == 1030
RPMTAG_FILEDIGESTS == 1035

RPM_INT16_TYPE == 3
RPM_INT32_TYPE == 4
RPM_STRING_TYPE == 6
RPM_STRING_ARRAY_TYPE == 8

sizeOfInt32 == 4
sizeOfUInt16 == 2

\* The literal "(none)" of the sentinel comparisons.
NONE == <<40, 110, 111, 110, 101, 41>>

---------------------------------------------------------------------------
(* Go values.                                                              *)

NilSlice == [nil |-> TRUE, v |-> <<>>]
Slice(s) == [nil |-> FALSE, v |-> s]

NoError == <<>>

\* &PackageInfo{}: every field at its zero value.
ZeroPackageInfo ==
    [Epoch |-> 0, Name |-> <<>>, Version |-> <<>>, Release |-> <<>>,
     Arch |-> <<>>, SourceRpm |-> <<>>, Size |-> 0, License |-> <<>>,
     Vendor |-> <<>>, Files |-> <<>>]

\* Go's integer division truncates toward zero.
GoDiv(a, b) == IF a >= 0 THEN a \div b ELSE -((-a) \div b)

---------------------------------------------------------------------------
(* Primitive decoders.                                                     *)

\* bytes.TrimRight(data, "\x00")
RECURSIVE parseString(_)
parseString(data) ==
    IF Len(data) > 0 /\ data[Len(data)] = 0
    THEN parseString(SubSeq(data, 1, Len(data) - 1))
    ELSE data

\* strings.Split(s, "\x00"), cur being the element under construction
RECURSIVE Split(_, _)
Split(s, cur) ==
    IF s = <<>> THEN <<cur>>
    ELSE IF Head(s) = 0 THEN <<cur>> \o Split(Tail(s), <<>>)
    ELSE Split(Tail(s), Append(cur, Head(s)))

parseStringArray(data) ==
    LET elements == Split(data, <<>>)
    IN  IF Len(elements) > 0 /\ elements[Len(elements)] = <<>>
        THEN SubSeq(elements, 1, Len(elements) - 1)
        ELSE elements

\* io.ReadFull of n bytes from a reader over data: the error it returns.
ReadFull(data, n) ==
    IF Len(data) >= n THEN NoError
    ELSE IF Len(data) = 0 THEN <<"EOF">>
    ELSE <<"unexpected EOF">>

\* binary.BigEndian, 4 bytes from offset off (0-based), as int32.
Int32At(data, off) ==
    LET b1 == data[off + 1]
        hi == IF b1 >= 128 THEN b1 - 256 ELSE b1
    IN  ((hi * 256 + data[off + 2]) * 256 + data[off + 3]) * 256 + data[off + 4]

\* binary.BigEndian, 2 bytes from offset off (0-based), as uint16.
UInt16At(data, off) == data[off + 1] * 256 + data[off + 2]

parseInt32(data) ==
    LET err == ReadFull(data, sizeOfInt32)
    IN  IF err # NoError
        THEN [value |-> 0, err |-> <<"failed to read binary">> \o err]
        ELSE [value |-> Int32At(data, 0), err |-> NoError]

\* Variant of parseInt32Array that reads the bytes of an element in
\* little-endian order.
Int32ArrayLittleEndian(data, arraySize) ==
    LET length == GoDiv(arraySize, sizeOfInt32)
        err == ReadFull(data, sizeOfInt32 * length)
    IN  IF err # NoError
        THEN [values |-> NilSlice, err |-> <<"failed to read binary">> \o err]
        ELSE [values |-> Slice([k \in 1..length |->
                  Int32At(<<data[4 * k], data[4 * k - 1],
                            data[4 * k - 2], data[4 * k - 3]>>, 0)]),
              err |-> NoError]

\* The slice is made with arraySize / sizeOfInt32 elements; binary.Read on
\* &values reads exactly that many elements, or fails.
parseInt32Array(data, arraySize) ==
    LET length == GoDiv(arraySize, sizeOfInt32)
        err == ReadFull(data, sizeOfInt32 * length)
    IN  IF err # NoError
        THEN [values |-> NilSlice, err |-> <<"failed to read binary">> \o err]
        ELSE [values |-> Slice([k \in 1..length |->
                                   Int32At(data, sizeOfInt32 * (k - 1))]),
              err |-> NoError]

parseUInt16Array(data, arraySize) ==
    LET length == GoDiv(arraySize, sizeOfUInt16)
        err == ReadFull(data, sizeOfUInt16 * length)
    IN  IF err # NoError
        THEN [values |-> NilSlice, err |-> <<"failed to read binary">> \o err]
        ELSE [values |-> Slice([k \in 1..length |->
                                   UInt16At(data, sizeOfUInt16 * (k - 1))]),
              err |-> NoError]

---------------------------------------------------------------------------
(* newPackage: the scalar pass.                                            *)

\* Variant of TypeIs that accepts any declared type.
TypeIsAny(e, t) == TRUE

\* indexEntry.Info.Type != <expected> is the negation of this.
TypeIs(e, t) == e.Type = t

\* Variant of Sentinel without the sentinel rule.
SentinelOff(s) == s

\* if field == "(none)" { field = "" }
Sentinel(s) == IF s = NONE THEN <<>> ELSE s

\* Variant of ReturnFailure that hands out the package populated so far.
ReturnPartial(p, err) ==
    [kind |-> "return", pkg |-> [nil |-> FALSE, v |-> p], err |-> err]

\* return nil, err
ReturnFailure(p, err) ==
    [kind |-> "return", pkg |-> [nil |-> TRUE, v |-> ZeroPackageInfo], err |-> err]

\* return pkgInfo, nil
ReturnPackage(p) ==
    [kind |-> "return", pkg |-> [nil |-> FALSE, v |-> p], err |-> NoError]

NotReturned ==
    [kind |-> "none", pkg |-> [nil |-> TRUE, v |-> ZeroPackageInfo], err |-> NoError]

Panicked ==
    [kind |-> "panic", pkg |-> [nil |-> TRUE, v |-> ZeroPackageInfo], err |-> NoError]

\* A string case of the switch: type check, parseString, the sentinel rule
\* where the code has one.  Yields the updated pkgInfo and the error.
StringCase(p, e, fld, msg, sentinel) ==
    IF ~TypeIs(e, RPM_STRING_TYPE)
    THEN [p |-> p, err |-> <<msg>>]
    ELSE [p |-> [p EXCEPT ![fld] = IF sentinel THEN Sentinel(parseString(e.Data))
                                              ELSE parseString(e.Data)],
          err |-> NoError]

\* An int32 case of the switch: the field is assigned parseInt32's value
\* (0 when it failed) before err is looked at.
Int32Case(p, e, fld, msg, wrap) ==
    IF ~TypeIs(e, RPM_INT32_TYPE)
    THEN [p |-> p, err |-> <<msg>>]
    ELSE LET r == parseInt32(e.Data)
         IN  [p |-> [p EXCEPT ![fld] = r.value],
              err |-> IF r.err # NoError THEN <<wrap>> \o r.err ELSE NoError]

\* Variant of ScalarCase in which a field once assigned is not overwritten.
ScalarCaseKeepFirst(p, e) ==
    LET keep(fld, r) == IF p[fld] = ZeroPackageInfo[fld] THEN r ELSE [r EXCEPT !.p = p]
    IN
    CASE e.Tag = RPMTAG_NAME -> keep("Name", StringCase(p, e, "Name", "invalid tag name", FALSE))
      [] e.Tag = RPMTAG_EPOCH -> keep("Epoch", Int32Case(p, e, "Epoch", "invalid tag epoch", "failed to parse epoch"))
      [] e.Tag = RPMTAG_VERSION -> keep("Version", StringCase(p, e, "Version", "invalid tag version", FALSE))
      [] e.Tag = RPMTAG_RELEASE -> keep("Release", StringCase(p, e, "Release", "invalid tag release", FALSE))
      [] e.Tag = RPMTAG_ARCH -> keep("Arch", StringCase(p, e, "Arch", "invalid tag arch", FALSE))
      [] e.Tag = RPMTAG_SOURCERPM -> keep("SourceRpm", StringCase(p, e, "SourceRpm", "invalid tag sourcerpm", TRUE))
      [] e.Tag = RPMTAG_LICENSE -> keep("License", StringCase(p, e, "License", "invalid tag license", TRUE))
      [] e.Tag = RPMTAG_VENDOR -> keep("Vendor", StringCase(p, e, "Vendor", "invalid tag vendor", TRUE))
      [] e.Tag = RPMTAG_SIZE -> keep("Size", Int32Case(p, e, "Size", "invalid tag size", "failed to parse size"))
      [] OTHER -> [p |-> p, err |-> NoError]

\* switch indexEntry.Info.Tag { ... } of newPackage, for one entry.
ScalarCase(p, e) ==
    CASE e.Tag = RPMTAG_NAME -> StringCase(p, e, "Name", "invalid tag name", FALSE)
      [] e.Tag = RPMTAG_EPOCH -> Int32Case(p, e, "Epoch", "invalid tag epoch", "failed to parse epoch")
      [] e.Tag = RPMTAG_VERSION -> StringCase(p, e, "Version", "invalid tag version", FALSE)
      [] e.Tag = RPMTAG_RELEASE -> StringCase(p, e, "Release", "invalid tag release", FALSE)
      [] e.Tag = RPMTAG_ARCH -> StringCase(p, e, "Arch", "invalid tag arch", FALSE)
      [] e.Tag = RPMTAG_SOURCERPM -> StringCase(p, e, "SourceRpm", "invalid tag sourcerpm", TRUE)
      [] e.Tag = RPMTAG_LICENSE -> StringCase(p, e, "License", "invalid tag license", TRUE)
      [] e.Tag = RPMTAG_VENDOR -> StringCase(p, e, "Vendor", "invalid tag vendor", TRUE)
      [] e.Tag = RPMTAG_SIZE -> Int32Case(p, e, "Size", "invalid tag size", "failed to parse size")
      [] OTHER -> [p |-> p, err |-> NoError]

---------------------------------------------------------------------------
(* getFileInfo.                                                            *)

Locals ==
    [allBasenames |-> allBasenames, allDirs |-> allDirs,
     allDirIndexes |-> allDirIndexes, allFileDigests |-> allFileDigests,
     allFileModes |-> allFileModes, allFileSizes |-> allFileSizes]

\* A string-array case of the collection switch.
StringArrayCase(a, e, var, msg) ==
    IF ~TypeIs(e, RPM_STRING_ARRAY_TYPE)
    THEN [a |-> a, err |-> <<msg>>]
    ELSE [a |-> [a EXCEPT ![var] = Slice(parseStringArray(e.Data))],
          err |-> NoError]

\* A fixed-width array case: the local is assigned the decoder's slice
\* (nil when it failed) before err is looked at.
NumArrayCase(a, e, var, type, r, msg, wrap) ==
    IF ~TypeIs(e, type)
    THEN [a |-> a, err |-> <<msg>>]
    ELSE [a |-> [a EXCEPT ![var] = r.values],
          err |-> IF r.err # NoError THEN <<wrap>> \o r.err ELSE NoError]

\* switch indexEntry.Info.Tag { ... } of getFileInfo, for one entry.
CollectCase(a, e) ==
    CASE e.Tag = RPMTAG_FILESIZES ->
            NumArrayCase(a, e, "allFileSizes", RPM_INT32_TYPE,
                         parseInt32Array(e.Data, e.Length),
                         "invalid tag file-sizes", "failed to parse file-sizes")
      [] e.Tag = RPMTAG_FILEDIGESTS ->
            StringArrayCase(a, e, "allFileDigests", "invalid tag file-digests")
      [] e.Tag = RPMTAG_FILEMODES ->
            NumArrayCase(a, e, "allFileModes", RPM_INT16_TYPE,
                         parseUInt16Array(e.Data, e.Length),
                         "invalid tag file-modes", "failed to parse file-modes")
      [] e.Tag = RPMTAG_BASENAMES ->
            StringArrayCase(a, e, "allBasenames", "invalid tag basenames")
      [] e.Tag = RPMTAG_DIRNAMES ->
            StringArrayCase(a, e, "allDirs", "invalid tag dir-names")
      [] e.Tag = RPMTAG_DIRINDEXES ->
            NumArrayCase(a, e, "allDirIndexes", RPM_INT32_TYPE,
                         parseInt32Array(e.Data, e.Length),
                         "invalid tag dir-indexes", "failed to parse dir-indexes")
      [] OTHER -> [a |-> a, err |-> NoError]

\* Variant of HaveDirs that tests the directory names only.
HaveDirsOnly(dirs, dirIndexes) == ~dirs.nil

\* allDirs != nil && allDirIndexes != nil
HaveDirs(dirs, dirIndexes) == ~dirs.nil /\ ~dirIndexes.nil

\* Variant of AuxAt that reads the first element for every file.
AuxAtFirst(all, k, zero) ==
    IF ~all.nil /\ Len(all.v) > 0 THEN all.v[1] ELSE zero

\* if all != nil && len(all) > i { x = all[i] }, x starting at its zero value
AuxAt(all, k, zero) ==
    IF ~all.nil /\ Len(all.v) > k THEN all.v[k + 1] ELSE zero

\* Variant of JoinPath that puts a "/" between directory and file.
JoinPathSeparator(dir, file) == dir \o <<47>> \o file

\* allDirs[allDirIndexes[i]] + file
JoinPath(dir, file) == dir \o file

\* The index expressions allDirIndexes[i] and allDirs[...] are in range.
IndexInRange(dirs, dirIndexes, k) ==
    /\ k < Len(dirIndexes.v)
    /\ dirIndexes.v[k + 1] >= 0
    /\ dirIndexes.v[k + 1] < Len(dirs.v)

GetFileInfoReturn(fs, err) == [kind |-> "return", files |-> fs, err |-> err]
GetFileInfoNotReturned == [kind |-> "none", files |-> <<>>, err |-> NoError]
GetFileInfoPanicked == [kind |-> "panic", files |-> <<>>, err |-> NoError]

---------------------------------------------------------------------------
(* The inputs: index entries as the header reader hands them over.         *)

MaxEntries == 2      \* length of the free-form entry sequences
MaxFiles == 2        \* elements of a per-file array
MaxDirs == 2         \* elements of the directory-name table
MaxArraySize == 13   \* arraySize of a direct parseInt32Array call
MaxDataLen == 13     \* len(data) of a direct parseInt32Array call

\* indexEntry{Info: {Tag, Type}, Data, Length}.  Length is a byte count: the
\* inputs below have none that is negative.
Entry(tag, type, data, length) ==
    [Tag |-> tag, Type |-> type, Data |-> data, Length |-> length]

RECURSIVE Flatten(_)
Flatten(ss) == IF ss = <<>> THEN <<>> ELSE Head(ss) \o Flatten(Tail(ss))

\* A string array on disk: every element followed by a null byte.
EncStrings(ss) == Flatten([k \in 1..Len(ss) |-> Append(ss[k], 0)])

\* An int32 on disk: 4 bytes, big-endian, two's complement.
EncInt32(x) == <<(x \div 16777216) % 256, (x \div 65536) % 256,
                 (x \div 256) % 256, x % 256>>
EncInt32s(xs) == Flatten([k \in 1..Len(xs) |-> EncInt32(xs[k])])

\* A uint16 on disk: 2 bytes, big-endian.
EncUInt16s(xs) == Flatten([k \in 1..Len(xs) |-> <<xs[k] \div 256, xs[k] % 256>>])

BaseName(k) == <<96 + k>>                    \* "a", "b", ...
DirName(k) == <<47, 100 + k, 47>>            \* "/e/", "/f/", ...
Digest(k) == <<100, 48 + k>>                 \* "d1", "d2", ...
FileMode(k) == 33188 + 73 * (k - 1)          \* 0100644, 0100755, ...
FileSize(k) == 70000 * k

StringTags == {RPMTAG_NAME, RPMTAG_VERSION, RPMTAG_RELEASE, RPMTAG_ARCH,
               RPMTAG_SOURCERPM, RPMTAG_LICENSE, RPMTAG_VENDOR}
Int32Tags == {RPMTAG_EPOCH, RPMTAG_SIZE}
StringArrayTags == {RPMTAG_FILEDIGESTS, RPMTAG_BASENAMES, RPMTAG_DIRNAMES}
FileTags == StringArrayTags \cup
            {RPMTAG_FILESIZES, RPMTAG_FILEMODES, RPMTAG_DIRINDEXES}
RecognizedTags == StringTags \cup Int32Tags \cup FileTags
OtherTag == RPMTAG_NAME - 1

\* The catalog: the type each case of the two switches compares with.
ExpectedType(tag) ==
    IF tag \in StringTags THEN RPM_STRING_TYPE
    ELSE IF tag \in StringArrayTags THEN RPM_STRING_ARRAY_TYPE
    ELSE IF tag = RPMTAG_FILEMODES THEN RPM_INT16_TYPE
    ELSE RPM_INT32_TYPE

\* "(none)\0", "(none)", "(None)\0", "b\0\0"
StringData == {Append(NONE, 0), NONE, <<40, 78, 111, 110, 101, 41, 0>>,
               <<98, 0, 0>>}
\* 1, -2, three bytes, no byte, five bytes
Int32Data == {<<0, 0, 0, 1>>, <<255, 255, 255, 254>>, <<0, 0, 1>>, <<>>,
              <<0, 0, 0, 2, 9>>}

ScalarPool ==
    {Entry(t, RPM_STRING_TYPE, d, Len(d)) : t \in StringTags, d \in StringData}
    \cup {Entry(t, RPM_STRING_ARRAY_TYPE, <<98, 0>>, 2) : t \in StringTags}
    \cup {Entry(t, RPM_INT32_TYPE, d, Len(d)) : t \in Int32Tags, d \in Int32Data}
    \cup {Entry(t, RPM_INT16_TYPE, <<0, 0, 0, 1>>, 4) : t \in Int32Tags}

\* Directory-index arrays: constant, ascending and descending runs over
\* 0..MaxDirs (MaxDirs itself is out of range of every table), and -1.
DirIndexLists ==
    {[k \in 1..n |-> (d + s * k) % (MaxDirs + 1)] :
        n \in 0..MaxFiles, d \in 0..MaxDirs, s \in {0, 1, MaxDirs}}
    \cup {<<-1>>}

\* Well-formed file entries: the expected type, Length = len(Data).
FilePoolGood ==
    {Entry(RPMTAG_BASENAMES, RPM_STRING_ARRAY_TYPE, d, Len(d)) :
        d \in {EncStrings([k \in 1..n |-> BaseName(k)]) : n \in 0..MaxFiles}}
    \cup {Entry(RPMTAG_DIRNAMES, RPM_STRING_ARRAY_TYPE, d, Len(d)) :
        d \in {EncStrings([k \in 1..n |-> DirName(k)]) : n \in 0..MaxDirs}}
    \cup {Entry(RPMTAG_FILEDIGESTS, RPM_STRING_ARRAY_TYPE, d, Len(d)) :
        d \in {EncStrings([k \in 1..n |-> Digest(k)]) : n \in 1..MaxFiles}}
    \cup {Entry(RPMTAG_FILEMODES, RPM_INT16_TYPE, d, Len(d)) :
        d \in {EncUInt16s([k \in 1..n |-> FileMode(k)]) : n \in 1..MaxFiles}}
    \cup {Entry(RPMTAG_FILESIZES, RPM_INT32_TYPE, d, Len(d)) :
        d \in {EncInt32s([k \in 1..n |-> FileSize(k)]) : n \in 1..MaxFiles}}
    \cup {Entry(RPMTAG_DIRINDEXES, RPM_INT32_TYPE, d, Len(d)) :
        d \in {EncInt32s(xs) : xs \in DirIndexLists}}

\* Ill-formed file entries: another type, a payload shorter than Length, a
\* Length that is no multiple of the element size.
FilePoolBad ==
    {Entry(t, RPM_STRING_TYPE, <<97, 0>>, 2) : t \in StringArrayTags}
    \cup {Entry(RPMTAG_FILEMODES, RPM_INT32_TYPE, <<0, 0, 129, 164>>, 4),
          Entry(RPMTAG_FILEMODES, RPM_INT16_TYPE, <<129>>, 2),
          Entry(RPMTAG_FILESIZES, RPM_INT16_TYPE, <<0, 5>>, 2),
          Entry(RPMTAG_FILESIZES, RPM_INT32_TYPE, <<>>, 4),
          Entry(RPMTAG_DIRINDEXES, RPM_INT16_TYPE, <<0, 0>>, 2),
          Entry(RPMTAG_DIRINDEXES, RPM_INT32_TYPE, <<0, 0, 0, 0, 0, 0>>, 8),
          Entry(RPMTAG_DIRINDEXES, RPM_INT32_TYPE, <<0, 0, 0, 0, 0, 0>>, 7)}

\* The entries of the free-form sequences: of the directory-index arrays,
\* those of at most one element.
Pool == ScalarPool \cup FilePoolBad
            \cup {e \in FilePoolGood :
                    e.Tag = RPMTAG_DIRINDEXES => e.Length <= sizeOfInt32}
            \cup {Entry(OtherTag, RPM_STRING_TYPE, <<98, 0>>, 2)}

\* At most one entry of the tag.
Choice(tag) ==
    {<<>>} \cup {<<e>> : e \in {x \in FilePoolGood \cup FilePoolBad : x.Tag = tag}}

\* A header's file entries: each tag at most once, in ascending tag order.
HeaderSeqs ==
    {s1 \o s2 \o s3 \o s4 \o s5 \o s6 :
        s1 \in Choice(RPMTAG_FILESIZES), s2 \in Choice(RPMTAG_FILEMODES),
        s3 \in Choice(RPMTAG_FILEDIGESTS), s4 \in Choice(RPMTAG_DIRINDEXES),
        s5 \in Choice(RPMTAG_BASENAMES), s6 \in Choice(RPMTAG_DIRNAMES)}

\* The arguments of the direct parseInt32Array calls: every prefix of a
\* few byte streams, with every arraySize.
Stream(k) == [n \in 1..(MaxDataLen + 1) |-> (k * 97 + n * 61 + n * n * k) % 256]
CallArgs ==
    {[data |-> SubSeq(Stream(k), 1, n), arraySize |-> a] :
        k \in 1..3, n \in 0..MaxDataLen, a \in 0..MaxArraySize}
NoCall == [data |-> <<>>, arraySize |-> 0]
NoResult == [values |-> NilSlice, err |-> NoError]

---------------------------------------------------------------------------
(* The state machine.                                                      *)

Init ==
    /\ \/ \E n \in 0..MaxEntries : entries \in [1..n -> Pool]
       \/ entries \in HeaderSeqs
    /\ pc = "scalar"
    /\ idx = 1
    /\ pkgInfo = ZeroPackageInfo
    /\ allBasenames = NilSlice
    /\ allDirs = NilSlice
    /\ allDirIndexes = NilSlice
    /\ allFileDigests = NilSlice
    /\ allFileModes = NilSlice
    /\ allFileSizes = NilSlice
    /\ i = 0
    /\ files = <<>>
    /\ gfi = GetFileInfoNotReturned
    /\ ret = NotReturned
    /\ call = NoCall
    /\ result = NoResult

localVars == <<allBasenames, allDirs, allDirIndexes, allFileDigests,
               allFileModes, allFileSizes>>

\* One iteration of newPackage's range loop.
ScalarStep ==
    /\ pc = "scalar"
    /\ idx <= Len(entries)
    /\ LET r == ScalarCase(pkgInfo, entries[idx])
       IN  /\ pkgInfo' = r.p
           /\ IF r.err # NoError
              THEN /\ ret' = ReturnFailure(r.p, r.err)
                   /\ pc' = "done"
                   /\ idx' = idx
              ELSE /\ ret' = ret
                   /\ pc' = "scalar"
                   /\ idx' = idx + 1
    /\ UNCHANGED <<entries, localVars, i, files, gfi, call, result>>

\* The loop is over: newPackage calls getFileInfo(indexEntries).
CallGetFileInfo ==
    /\ pc = "scalar"
    /\ idx > Len(entries)
    /\ pc' = "collect"
    /\ idx' = 1
    /\ UNCHANGED <<entries, pkgInfo, localVars, i, files, gfi, ret, call, result>>

\* One iteration of getFileInfo's range loop.
CollectStep ==
    /\ pc = "collect"
    /\ idx <= Len(entries)
    /\ LET r == CollectCase(Locals, entries[idx])
       IN  /\ allBasenames' = r.a.allBasenames
           /\ allDirs' = r.a.allDirs
           /\ allDirIndexes' = r.a.allDirIndexes
           /\ allFileDigests' = r.a.allFileDigests
           /\ allFileModes' = r.a.allFileModes
           /\ allFileSizes' = r.a.allFileSizes
           /\ IF r.err # NoError
              THEN /\ gfi' = GetFileInfoReturn(<<>>, r.err)
                   /\ pc' = "returned"
                   /\ idx' = idx
              ELSE /\ gfi' = gfi
                   /\ pc' = "collect"
                   /\ idx' = idx + 1
    /\ UNCHANGED <<entries, pkgInfo, i, files, ret, call, result>>

\* The collection loop is over: enter the zipping loop, or skip it.
CollectDone ==
    /\ pc = "collect"
    /\ idx > Len(entries)
    /\ IF HaveDirs(allDirs, allDirIndexes)
       THEN /\ pc' = "zip"
            /\ gfi' = gfi
       ELSE /\ pc' = "returned"
            /\ gfi' = GetFileInfoReturn(files, NoError)
    /\ i' = 0
    /\ UNCHANGED <<entries, idx, pkgInfo, localVars, files, ret, call, result>>

\* One iteration of the zipping loop; an index out of range panics, and
\* the panic unwinds through newPackage.
ZipStep ==
    /\ pc = "zip"
    /\ i < Len(allBasenames.v)
    /\ IF IndexInRange(allDirs, allDirIndexes, i)
       THEN /\ files' = Append(files,
                  [Path |-> JoinPath(allDirs.v[allDirIndexes.v[i + 1] + 1],
                                     allBasenames.v[i + 1]),
                   Mode |-> AuxAt(allFileModes, i, 0),
                   SHA256 |-> AuxAt(allFileDigests, i, <<>>),
                   Size |-> AuxAt(allFileSizes, i, 0)])
            /\ i' = i + 1
            /\ UNCHANGED <<pc, gfi, ret>>
       ELSE /\ gfi' = GetFileInfoPanicked
            /\ ret' = Panicked
            /\ pc' = "done"
            /\ UNCHANGED <<files, i>>
    /\ UNCHANGED <<entries, idx, pkgInfo, localVars, call, result>>

\* return files, nil
ZipDone ==
    /\ pc = "zip"
    /\ i >= Len(allBasenames.v)
    /\ gfi' = GetFileInfoReturn(files, NoError)
    /\ pc' = "returned"
    /\ UNCHANGED <<entries, idx, pkgInfo, localVars, i, files, ret, call, result>>

\* newPackage after getFileInfo returned.
NewPackageReturn ==
    /\ pc = "returned"
    /\ IF gfi.err # NoError
       THEN /\ ret' = ReturnFailure(pkgInfo,
                         <<"failed to read package files">> \o gfi.err)
            /\ pkgInfo' = pkgInfo
       ELSE /\ pkgInfo' = [pkgInfo EXCEPT !.Files = gfi.files]
            /\ ret' = ReturnPackage(pkgInfo')
    /\ pc' = "done"
    /\ UNCHANGED <<entries, idx, localVars, i, files, gfi, call, result>>

Next ==
    \/ ScalarStep
    \/ CallGetFileInfo
    \/ CollectStep
    \/ CollectDone
    \/ ZipStep
    \/ ZipDone
    \/ NewPackageReturn

Spec == Init /\ [][Next]_vars

(* The decoder called on its own.                                          *)

InitArr ==
    /\ entries = <<>>
    /\ pc = "parseInt32Array"
    /\ idx = 1
    /\ pkgInfo = ZeroPackageInfo
    /\ allBasenames = NilSlice
    /\ allDirs = NilSlice
    /\ allDirIndexes = NilSlice
    /\ allFileDigests = NilSlice
    /\ allFileModes = NilSlice
    /\ allFileSizes = NilSlice
    /\ i = 0
    /\ files = <<>>
    /\ gfi = GetFileInfoNotReturned
    /\ ret = NotReturned
    /\ call \in CallArgs
    /\ result = NoResult

CallParseInt32Array ==
    /\ pc = "parseInt32Array"
    /\ result' = parseInt32Array(call.data, call.arraySize)
    /\ pc' = "parsed"
    /\ UNCHANGED <<entries, idx, pkgInfo, localVars, i, files, gfi, ret, call>>

NextArr == CallParseInt32Array

SpecArr == InitArr /\ [][NextArr]_vars

---------------------------------------------------------------------------
(* Vocabulary of the properties, stated on the entries and the results.    *)

\* data without its trailing null bytes
Stripped(d) ==
    SubSeq(d, 1, CHOOSE n \in 0..Len(d) :
                    /\ n = 0 \/ d[n] # 0
                    /\ \A j \in (n + 1)..Len(d) : d[j] = 0)

HasTag(tag) == \E j \in 1..Len(entries) : entries[j].Tag = tag

\* The entry's declared type is not the one expected of its tag.
Mismatch(e) == e.Tag \in RecognizedTags /\ e.Type # ExpectedType(e.Tag)

\* The entry's payload is too short for its fixed-width decoder.
Undecodable(e) ==
    \/ e.Tag \in Int32Tags /\ Len(e.Data) < 4
    \/ e.Tag \in {RPMTAG_FILESIZES, RPMTAG_DIRINDEXES}
          /\ Len(e.Data) < 4 * (e.Length \div 4)
    \/ e.Tag = RPMTAG_FILEMODES /\ Len(e.Data) < 2 * (e.Length \div 2)

Bad(e) == Mismatch(e) \/ Undecodable(e)

Positions == [j \in 1..Len(entries) |-> j]
IsScalarPos(j) == entries[j].Tag \in StringTags \cup Int32Tags
IsFilePos(j) == entries[j].Tag \in FileTags
IsBadPos(j) == Bad(entries[j])

\* The order in which the two passes look at the entries.
PassOrder == SelectSeq(Positions, IsScalarPos) \o SelectSeq(Positions, IsFilePos)
BadInPassOrder == SelectSeq(PassOrder, IsBadPos)

InvalidTagMsgs ==
    {"invalid tag name", "invalid tag epoch", "invalid tag version",
     "invalid tag release", "invalid tag arch", "invalid tag sourcerpm",
     "invalid tag license", "invalid tag vendor", "invalid tag size",
     "invalid tag file-sizes", "invalid tag file-digests",
     "invalid tag file-modes", "invalid tag basenames",
     "invalid tag dir-names", "invalid tag dir-indexes"}

\* The kind of an error value, by the innermost message of its chain.
ErrKind(err) ==
    IF err = NoError THEN "none"
    ELSE IF err[Len(err)] \in InvalidTagMsgs THEN "InvalidTagType"
    ELSE IF err[Len(err)] \in {"EOF", "unexpected EOF"} THEN "DecodeError"
    ELSE "other"

\* getFileInfo got through its collection pass.
Collected == pc = "zip" \/ gfi.kind = "panic"
                \/ (gfi.kind = "return" /\ gfi.err = NoError)

\* Every file index has a directory index, and it addresses a directory.
AllDirIndexesValid ==
    \A k \in 1..Len(allBasenames.v) :
        /\ k <= Len(allDirIndexes.v)
        /\ allDirIndexes.v[k] >= 0
        /\ allDirIndexes.v[k] < Len(allDirs.v)

\* Some file index has a directory index that exceeds the directory table.
SomeDirIndexOutOfBounds ==
    \E k \in 1..Len(allBasenames.v) :
        /\ k <= Len(allDirIndexes.v)
        /\ (allDirIndexes.v[k] < 0 \/ allDirIndexes.v[k] >= Len(allDirs.v))

---------------------------------------------------------------------------
(* C1: when DIRNAMES and DIRINDEXES are both present and getFileInfo       *)
(* returns without error, it returns exactly len(basenames) records, and   *)
(* record i has Path = dirnames[dirindexes[i]] followed by basenames[i],   *)
(* nothing in between: the order of the base names, unsorted, duplicates   *)
(* kept.                                                                   *)
C1_ZipPaths ==
    (/\ HasTag(RPMTAG_DIRNAMES) /\ HasTag(RPMTAG_DIRINDEXES)
     /\ gfi.kind = "return" /\ gfi.err = NoError)
    => /\ Len(gfi.files) = Len(allBasenames.v)
       /\ \A k \in 1..Len(allBasenames.v) :
            gfi.files[k].Path =
                allDirs.v[allDirIndexes.v[k] + 1] \o allBasenames.v[k]

\* Two files, directory indexes [1, 0]: "/f/a" then "/e/b", not sorted.
C1_Witness ==
    /\ gfi.kind = "return" /\ gfi.err = NoError
    /\ allDirIndexes.v = <<1, 0>>
    /\ Len(gfi.files) = 2
    /\ gfi.files[1].Path = <<47, 102, 47, 97>>
    /\ gfi.files[2].Path = <<47, 101, 47, 98>>

(* C2: with DIRNAMES and DIRINDEXES present and every file's directory     *)
(* index valid, a digest, mode or size array that is absent or shorter     *)
(* than BASENAMES causes no failure: record i takes filedigests[i],        *)
(* filemodes[i], filesizes[i] where the array has that element, and "", 0, *)
(* 0 where it has not, each array on its own.                              *)
C2_AuxDefaults ==
    (/\ Collected
     /\ ~allDirs.nil /\ ~allDirIndexes.nil
     /\ AllDirIndexesValid)
    => /\ gfi.kind # "panic"
       /\ \A k \in 1..Len(files) :
            /\ files[k].SHA256 =
                 (IF k <= Len(allFileDigests.v) THEN allFileDigests.v[k] ELSE <<>>)
            /\ files[k].Mode =
                 (IF k <= Len(allFileModes.v) THEN allFileModes.v[k] ELSE 0)
            /\ files[k].Size =
                 (IF k <= Len(allFileSizes.v) THEN allFileSizes.v[k] ELSE 0)
       /\ gfi.kind = "return" =>
            /\ gfi.err = NoError
            /\ gfi.files = files
            /\ Len(files) = Len(allBasenames.v)

\* Two files, one mode, two sizes, no digests.
C2_Witness ==
    /\ gfi.kind = "return" /\ gfi.err = NoError
    /\ Len(gfi.files) = 2
    /\ allFileDigests.nil
    /\ Len(allFileModes.v) = 1 /\ Len(allFileSizes.v) = 2
    /\ gfi.files[1].Mode = 33188 /\ gfi.files[2].Mode = 0
    /\ gfi.files[2].Size = 140000
    /\ gfi.files[2].SHA256 = <<>>

(* C3: with no DIRNAMES entry or no DIRINDEXES entry, and every file entry *)
(* of the expected type and decodable, getFileInfo never enters the        *)
(* zipping loop and returns the empty list and no error, whatever the      *)
(* other file arrays hold.                                                 *)
C3_NoDirsNoFiles ==
    (/\ ~HasTag(RPMTAG_DIRNAMES) \/ ~HasTag(RPMTAG_DIRINDEXES)
     /\ \A j \in 1..Len(entries) : IsFilePos(j) => ~Bad(entries[j])
     /\ pc = "zip" \/ gfi.kind # "none")
    => gfi = GetFileInfoReturn(<<>>, NoError)

\* Base names and directory indexes, but no directory names.
C3_Witness ==
    /\ gfi.kind = "return"
    /\ Len(allBasenames.v) > 0
    /\ ~allDirIndexes.nil
    /\ ~HasTag(RPMTAG_DIRNAMES)
    /\ gfi.files = <<>>

(* C4: when in the zipping pass a file's directory index exceeds the       *)
(* bounds of the directory names, getFileInfo fails with an error value,   *)
(* and newPackage returns that error, wrapped, and no package.             *)
C4_IndexErrorReturned ==
    (/\ pc = "done"
     /\ Collected
     /\ ~allDirs.nil /\ ~allDirIndexes.nil
     /\ SomeDirIndexOutOfBounds)
    => /\ gfi.kind = "return" /\ gfi.err # NoError
       /\ ret.kind = "return" /\ ret.pkg.nil
       /\ ret.err = <<"failed to read package files">> \o gfi.err

(* C5 as stated: an entry of a recognized tag whose declared type is not   *)
(* the expected one makes the decode fail with InvalidTagType, whatever    *)
(* the other entries are.                                                  *)
C5_AlwaysInvalidTagType ==
    (/\ pc = "done"
     /\ \E j \in 1..Len(entries) : Mismatch(entries[j]))
    => ret.kind = "return" /\ ErrKind(ret.err) = "InvalidTagType"

(* C5 amended: such an entry makes the decode fail: newPackage returns no  *)
(* package and an error, which is that of the first entry, in the order    *)
(* the passes look at them (the scalar entries, then the file entries),    *)
(* that is ill-typed or too short for its decoder: InvalidTagType for      *)
(* the one, a decode error for the other.                                  *)
C5_MismatchFails ==
    (/\ pc = "done"
     /\ \E j \in 1..Len(entries) : Mismatch(entries[j]))
    => /\ ret.kind = "return"
       /\ ret.pkg.nil
       /\ ErrKind(ret.err) =
            (IF Mismatch(entries[BadInPassOrder[1]])
             THEN "InvalidTagType" ELSE "DecodeError")

\* The ill-typed entry comes after a well-typed entry of the same tag.
C5_Witness ==
    /\ pc = "done"
    /\ Len(entries) = 2
    /\ entries[1].Tag = entries[2].Tag
    /\ ~Bad(entries[1]) /\ Mismatch(entries[2])
    /\ ErrKind(ret.err) = "InvalidTagType"

(* C6: whenever newPackage returns an error it returns no package, also    *)
(* after fields were assigned; a package comes with the nil error only.    *)
C6_NothingPartial ==
    ret.kind = "return" => (ret.pkg.nil <=> ret.err # NoError)

\* An error after the name was assigned.
C6_Witness ==
    /\ ret.kind = "return" /\ ret.err # NoError
    /\ pkgInfo.Name # <<>>
    /\ ret.pkg.nil

---------------------------------------------------------------------------
(* Vocabulary of the scalar pass.                                          *)

SentinelTags == {RPMTAG_SOURCERPM, RPMTAG_LICENSE, RPMTAG_VENDOR}

FieldOf(tag) ==
    CASE tag = RPMTAG_NAME -> "Name"
      [] tag = RPMTAG_VERSION -> "Version"
      [] tag = RPMTAG_RELEASE -> "Release"
      [] tag = RPMTAG_ARCH -> "Arch"
      [] tag = RPMTAG_SOURCERPM -> "SourceRpm"
      [] tag = RPMTAG_LICENSE -> "License"
      [] tag = RPMTAG_VENDOR -> "Vendor"
      [] tag = RPMTAG_EPOCH -> "Epoch"
      [] tag = RPMTAG_SIZE -> "Size"

\* The field value has the entry's decoded (and normalized) value.
HoldsValueOf(x, e) ==
    IF e.Tag \in Int32Tags
    THEN EncInt32(x) = SubSeq(e.Data, 1, 4)
    ELSE IF e.Tag \in SentinelTags /\ Stripped(e.Data) = NONE
    THEN x = <<>>
    ELSE x = Stripped(e.Data)

\* The field of p for tag has the value of the last entry of the tag among
\* the first n entries, or its default when there is none.
LastWins(p, tag, n) ==
    LET J == {j \in 1..n : entries[j].Tag = tag}
    IN  IF J = {}
        THEN p[FieldOf(tag)] = ZeroPackageInfo[FieldOf(tag)]
        ELSE HoldsValueOf(p[FieldOf(tag)],
                          entries[CHOOSE j \in J : \A m \in J : m <= j])

(* C7: last write wins.  After any prefix of the entries processed without *)
(* failure, each scalar field has the decoded, sentinel-normalized value   *)
(* of the last entry of its tag in that prefix, or its default when the    *)
(* prefix has none; the package returned has that of the whole sequence.   *)
C7_LastWriteWins ==
    /\ pc = "scalar" =>
         \A tag \in StringTags \cup Int32Tags : LastWins(pkgInfo, tag, idx - 1)
    /\ (ret.kind = "return" /\ ~ret.pkg.nil) =>
         \A tag \in StringTags \cup Int32Tags :
            LastWins(ret.pkg.v, tag, Len(entries))

\* Two entries of a tag with different values: the second one stays.
C7_Witness ==
    /\ pc = "scalar" /\ idx = 3
    /\ entries[1].Tag = RPMTAG_RELEASE /\ entries[2].Tag = RPMTAG_RELEASE
    /\ Stripped(entries[1].Data) # <<>>
    /\ Stripped(entries[1].Data) # Stripped(entries[2].Data)
    /\ pkgInfo.Release = Stripped(entries[2].Data)

(* C8: a well-typed SOURCERPM, LICENSE or VENDOR entry whose string, once  *)
(* its trailing null bytes are stripped, is exactly "(none)" sets its      *)
(* field to the empty string, and stores any other string as it is; a      *)
(* NAME, VERSION, RELEASE or ARCH entry stores "(none)" as it is.          *)
C8_Sentinel ==
    (pc = "scalar" /\ idx > 1 /\ entries[idx - 1].Tag \in StringTags) =>
        LET e == entries[idx - 1]
            x == pkgInfo[FieldOf(e.Tag)]
        IN  /\ (e.Tag \in SentinelTags /\ Stripped(e.Data) = NONE) => x = <<>>
            /\ (e.Tag \in SentinelTags /\ Stripped(e.Data) # NONE) =>
                    x = Stripped(e.Data)
            /\ (e.Tag \notin SentinelTags /\ Stripped(e.Data) = NONE) => x = NONE

\* NAME "(none)" then VENDOR "(none)": the name stays, the vendor is empty.
C8_Witness ==
    /\ pc = "scalar" /\ idx = 3
    /\ entries[1].Tag = RPMTAG_NAME /\ entries[2].Tag = RPMTAG_VENDOR
    /\ Stripped(entries[1].Data) = NONE /\ Stripped(entries[2].Data) = NONE
    /\ Len(entries[2].Data) > Len(NONE)
    /\ pkgInfo.Name = NONE /\ pkgInfo.Vendor = <<>>

(* C9: parseInt32Array(data, byteLength) returns floor(byteLength / 4)     *)
(* elements, element k the big-endian signed 32-bit value of bytes 4k to   *)
(* 4k+3 of data; a byteLength that is no multiple of 4 gives no error and  *)
(* no partial element; it fails exactly when data has fewer than           *)
(* 4 * floor(byteLength / 4) bytes, and ignores the bytes beyond.          *)
C9_Int32Array ==
    pc = "parsed" =>
        LET n == call.arraySize \div 4
        IN  IF Len(call.data) < 4 * n
            THEN result.err # NoError /\ result.values.nil
            ELSE /\ result.err = NoError
                 /\ ~result.values.nil
                 /\ Len(result.values.v) = n
                 /\ \A k \in 1..n :
                      /\ result.values.v[k] >= -2147483647 - 1
                      /\ result.values.v[k] <= 2147483647
                      /\ EncInt32(result.values.v[k]) =
                            SubSeq(call.data, 4 * k - 3, 4 * k)

\* byteLength 12 over 13 bytes: 3 elements, the first one negative.
C9_Witness ==
    /\ pc = "parsed"
    /\ call.arraySize = 12 /\ Len(call.data) = 13
    /\ result.err = NoError
    /\ Len(result.values.v) = 3
    /\ result.values.v[1] < 0

(* C10: newPackage always ends by returning a package or an error value,   *)
(* never in a runtime fault: the zipping loop reads no directory index     *)
(* that the DIRINDEXES array does not have, and no directory name at a     *)
(* negative index or beyond the DIRNAMES array.                            *)
C10_NoRuntimeFault ==
    /\ ret.kind # "panic"
    /\ pc = "zip" /\ i < Len(allBasenames.v) =>
         /\ i < Len(allDirIndexes.v)
         /\ allDirIndexes.v[i + 1] >= 0
         /\ allDirIndexes.v[i + 1] < Len(allDirs.v)

===========================================================================
